---- MODULE Spec2Model ----
(***************************************************************************)
(* Model of backend/api.py: a FastAPI process that loads three feature     *)
(* lists and three regression models at import time and then serves three  *)
(* prediction routes, one per operating band of the turbine.               *)
(*                                                                         *)
(* The artifact store (the six files under artifacts/) and the request     *)
(* bodies are the inputs.  The store is chosen in Init and never changes;  *)
(* a request body is chosen when the request is received.  Handlers are    *)
(* plain `def` functions, which FastAPI runs on a thread pool, so the two  *)
(* statements of a handler are two steps that interleave with the steps of *)
(* the other requests.                                                     *)
(***************************************************************************)
EXTENDS Integers, Sequences, FiniteSets, TLC

\* ------------------------------------------------------------------ bounds
\* Number of requests the process receives in one behaviour.
MaxRequests == 2
\* Number of artifacts of the store that differ from a healthy deployment.
MaxFaults == 1

\* ------------------------------------------------------- vocabulary of api.py
\* The three bands, named after the suffix of the module globals
\* (features_full / features_130 / features_160).
Bands == {"full", "130", "160"}

\* The fields of Sample in declaration order; this is also the key order of
\* payload.dict() and so the column order of pd.DataFrame([payload.dict()]).
SampleFields == <<"TIT", "TAT", "CDP", "GTEP", "AFDP", "AT", "AP", "AH", "TEY">>

FieldSet == {SampleFields[i] : i \in 1..Len(SampleFields)}

\* File names of the artifacts each band loads.
MetaFile(b) ==
  CASE b = "full" -> "artifacts/model_info.json"
    [] b = "130"  -> "artifacts/model_info_130_136.json"
    [] b = "160"  -> "artifacts/model_info_160p.json"

ModelFile(b) ==
  CASE b = "full" -> "artifacts/nox_xgb_v1.joblib"
    [] b = "130"  -> "artifacts/nox_xgb_130_136.joblib"
    [] b = "160"  -> "artifacts/nox_xgb_160p.joblib"

\* ------------------------------------------------------------ artifact store
\* A metadata document is one of
\*   absent   the file does not exist (open raises FileNotFoundError)
\*   nokey    the file is not JSON, or is JSON without a "features" key
\*   list     {"features": [n1, n2, ...]}
\*   str      {"features": "n1"}   (a JSON string instead of a list)
\* A feature value keeps its names as a sequence; kind tells list from string.
Absent == [kind |-> "absent", names |-> <<>>]
NoKey  == [kind |-> "nokey",  names |-> <<>>]
FeatList(s) == [kind |-> "list", names |-> s]
FeatStr(n)  == [kind |-> "str",  names |-> <<n>>]
Unset == [kind |-> "unset", names |-> <<>>]

\* The feature order each band's model was trained with (the content of a
\* healthy deployment's metadata files; the files are not in the repository,
\* so these are inputs).  None of them is in alphabetical or Sample order.
TrainedOrder(b) ==
  CASE b = "full" -> <<"AT", "AP", "AH", "AFDP", "GTEP", "TIT", "TAT", "TEY", "CDP">>
    [] b = "130"  -> <<"TIT", "CDP", "AT", "TEY">>
    [] b = "160"  -> <<"TEY", "AFDP", "TAT">>

GoodMeta(b) == FeatList(TrainedOrder(b))

\* Documents a deployment can hold in place of the healthy one.
BadMetas ==
  { Absent, NoKey,
    FeatList(<<>>),                    \* empty list
    FeatList(<<"TIT", "NOX">>),        \* a name that is no Sample field
    FeatStr("TIT") }                   \* a string, not a list

\* A model blob: absent/corrupt (joblib.load raises) or a fitted regressor.
\* A regressor is a pure function of its input row: it knows how many
\* features it was fitted on and weighs each position differently.
NoModel == [kind |-> "absent", band |-> "", nfeat |-> 0]
Regressor(b) == [kind |-> "model", band |-> b, nfeat |-> Len(TrainedOrder(b))]
NotLoaded == [kind |-> "unset", band |-> "", nfeat |-> 0]

GoodBlob(b) == Regressor(b)
BadBlobs == {NoModel}

Faults(meta, blob) ==
  Cardinality({b \in Bands : meta[b] # GoodMeta(b)})
  + Cardinality({b \in Bands : blob[b] # GoodBlob(b)})

Stores ==
  { st \in [meta : [Bands -> BadMetas \cup {GoodMeta(b) : b \in Bands}],
            blob : [Bands -> BadBlobs \cup {GoodBlob(b) : b \in Bands}]] :
      /\ \A b \in Bands : st.meta[b] \in BadMetas \cup {GoodMeta(b)}
      /\ \A b \in Bands : st.blob[b] \in BadBlobs \cup {GoodBlob(b)}
      /\ Faults(st.meta, st.blob) <= MaxFaults }

\* ------------------------------------------------------------ request bodies
\* A JSON value of a request body: a number, a string holding a number
\* (pydantic coerces it to float), or anything that is no number.
Num(v)    == [t |-> "num", v |-> v]
NumStr(v) == [t |-> "numstr", v |-> v]
NotNum    == [t |-> "bad", v |-> 0]

FieldIndex(f) == CHOOSE i \in 1..Len(SampleFields) : SampleFields[i] = f

\* A body with exactly the nine fields.
Body1 == [f \in FieldSet |-> Num(FieldIndex(f))]

\* Another reading, one value sent as a string, plus a key Sample does not have.
Body2 ==
  [k \in FieldSet \cup {"NOX"} |->
     IF k = "NOX" THEN Num(7)
     ELSE IF k = "TIT" THEN NumStr(3)
     ELSE Num((FieldIndex(k) * FieldIndex(k)) % 7)]

Without(body, f) == [k \in (DOMAIN body) \ {f} |-> body[k]]

Bodies ==
  {Body1, Body2}
  \cup {Without(Body1, f) : f \in FieldSet}
  \cup {[Body1 EXCEPT !["CDP"] = NotNum]}

\* --------------------------------------------------------------- class Sample
\* pydantic validation of a body against Sample: every field is required and
\* must be a float (or coercible to one); unknown keys are ignored.
SampleValid(body) ==
  \A f \in FieldSet : f \in DOMAIN body /\ body[f].t \in {"num", "numstr"}

\* The validated Sample: the nine fields as floats, nothing else.
Sample(body) == [f \in FieldSet |-> body[f].v]

NoSample == [f \in {} |-> 0]

\* payload.dict(): keys in declaration order.  pd.DataFrame([d]) is a one-row
\* frame whose columns are the dict's keys in that order: a sequence of
\* <<column name, value>>.
DataFrame(d) ==
  [i \in 1..Len(SampleFields) |-> <<SampleFields[i], d[SampleFields[i]]>>]

Columns(df) == {df[i][1] : i \in 1..Len(df)}

Column(df, n) == df[CHOOSE i \in 1..Len(df) : df[i][1] = n]

\* df[key]: with a list key, the columns named by the list, in the list's
\* order (KeyError if one is no column); with a string key, that one column
\* as a Series (KeyError if it is no column).
KeyError == [ok |-> FALSE, X |-> <<>>]

\* df[key] taken as the frame's own columns that the key names (frame order).
GetItem_frameOrder(df, key) ==
  IF \E i \in 1..Len(key.names) : key.names[i] \notin Columns(df)
  THEN KeyError
  ELSE [ok |-> TRUE,
        X  |-> SelectSeq(df, LAMBDA c :
                 \E i \in 1..Len(key.names) : key.names[i] = c[1])]

\* df.reindex-like selection: names that are no column are dropped silently.
GetItem_dropMissing(df, key) ==
  LET present == SelectSeq(key.names, LAMBDA n : n \in Columns(df))
  IN [ok |-> TRUE, X |-> [i \in 1..Len(present) |-> Column(df, present[i])]]

GetItem(df, key) ==
  IF \E i \in 1..Len(key.names) : key.names[i] \notin Columns(df)
  THEN KeyError
  ELSE [ok |-> TRUE,
        X  |-> [i \in 1..Len(key.names) |-> Column(df, key.names[i])]]

\* model.predict(X)[0]: a pure, order-sensitive function of the row's values;
\* it raises when the row does not have the number of features the model
\* was fitted on.
RECURSIVE Weighted(_, _)
Weighted(X, n) == IF n = 0 THEN 0 ELSE n * X[n][2] + Weighted(X, n - 1)

Intercept(b) == CASE b = "full" -> 100 [] b = "130" -> 200 [] b = "160" -> 300

PredictError == [ok |-> FALSE, y |-> 0]

Predict(m, X) ==
  IF Len(X) # m.nfeat
  THEN PredictError
  ELSE [ok |-> TRUE, y |-> Intercept(m.band) + Weighted(X, Len(X))]

\* --------------------------------------------------------------------- state
VARIABLES
  store,      \* the artifact files: [meta, blob], fixed for the process lifetime
  startup,    \* the statement module import has reached, "serving" or "aborted"
  features,   \* the globals features_full, features_130, features_160
  model,      \* the globals model_full, model_130, model_160
  routes,     \* the bands whose route is registered on app
  loads,      \* per artifact file, how often its load statement ran
  req         \* the requests: position in the handler, payload, X, response

vars == <<store, startup, features, model, routes, loads, req>>

Files == {MetaFile(b) : b \in Bands} \cup {ModelFile(b) : b \in Bands}

Requests == 1..MaxRequests

\* A request that has not arrived.
NoRequest ==
  [pc |-> "none", route |-> "", lacked |-> FALSE, payload |-> NoSample,
   X |-> <<>>, status |-> 0, NOX_pred |-> 0,
   readFeatures |-> <<>>, invoked |-> <<>>]

Init ==
  /\ store \in Stores
  /\ startup = "L8"
  /\ features = [b \in Bands |-> Unset]
  /\ model = [b \in Bands |-> NotLoaded]
  /\ routes = {}
  /\ loads = [f \in Files |-> 0]
  /\ req = [r \in Requests |-> NoRequest]

\* ------------------------------------------------------------ module import
\* features_X = json.load(open(file))["features"]: raises when the file is
\* absent, is not JSON or has no "features" key, and the import stops there;
\* otherwise whatever value the key holds is bound, unchecked.
LoadFeatures(b, here, next) ==
  /\ startup = here
  /\ loads' = [loads EXCEPT ![MetaFile(b)] = @ + 1]
  /\ IF store.meta[b].kind \in {"absent", "nokey"}
     THEN /\ startup' = "aborted"
          /\ UNCHANGED features
     ELSE /\ startup' = next
          /\ features' = [features EXCEPT ![b] = store.meta[b]]
  /\ UNCHANGED <<store, model, routes, req>>

\* model_X = joblib.load(file): raises when the file is absent or corrupt.
LoadModel(b, here, next) ==
  /\ startup = here
  /\ loads' = [loads EXCEPT ![ModelFile(b)] = @ + 1]
  /\ IF store.blob[b].kind = "absent"
     THEN /\ startup' = "aborted"
          /\ UNCHANGED model
     ELSE /\ startup' = next
          /\ model' = [model EXCEPT ![b] = store.blob[b]]
  /\ UNCHANGED <<store, features, routes, req>>

\* Import without the statement that loads model_160.
Load_model_160_skipped ==
  /\ startup = "L15"
  /\ startup' = "L21"
  /\ UNCHANGED <<store, features, model, routes, loads, req>>

\* joblib.load of model_130 wrapped in try/except: a failure is swallowed.
Load_model_130_swallowed ==
  /\ startup = "L14"
  /\ startup' = "L15"
  /\ loads' = [loads EXCEPT ![ModelFile("130")] = @ + 1]
  /\ model' = [model EXCEPT !["130"] =
                 IF store.blob["130"].kind = "absent" THEN @ ELSE store.blob["130"]]
  /\ UNCHANGED <<store, features, routes, req>>

Load_features_full == LoadFeatures("full", "L8", "L9")
Load_features_130  == LoadFeatures("130", "L9", "L10")
Load_features_160  == LoadFeatures("160", "L10", "L13")
Load_model_full    == LoadModel("full", "L13", "L14")
Load_model_130     == LoadModel("130", "L14", "L15")
Load_model_160     == LoadModel("160", "L15", "L21")

\* app = FastAPI() and app.add_middleware(...).
CreateApp ==
  /\ startup = "L21"
  /\ startup' = "L40"
  /\ UNCHANGED <<store, features, model, routes, loads, req>>

\* @app.post(path) above def predict_X: registers the route.  The server
\* accepts requests once the last statement of the module has run.
Register(b, here, next) ==
  /\ startup = here
  /\ startup' = next
  /\ routes' = routes \cup {b}
  /\ UNCHANGED <<store, features, model, loads, req>>

Register_predict_full == Register("full", "L40", "L45")
Register_predict_130  == Register("130", "L45", "L50")
Register_predict_160  == Register("160", "L50", "serving")

\* ------------------------------------------------------------------ requests
\* What FastAPI does with a parsed body on route b: an invalid body is
\* answered 422 and the handler is not called; a valid one is handed to the
\* handler as payload.  lacked records whether the body had a field missing.
Dispatch(r, b, body, valid, sample) ==
  req' = [req EXCEPT ![r] =
            IF valid
            THEN [@ EXCEPT !.pc = "L1", !.route = b, !.payload = sample,
                           !.lacked = (\E f \in FieldSet : f \notin DOMAIN body)]
            ELSE [@ EXCEPT !.pc = "done", !.route = b, !.status = 422,
                           !.lacked = (\E f \in FieldSet : f \notin DOMAIN body)]]

\* Sample with a default on its last field (TEY: float = 0.0).
SampleValid_defaultTEY(body) ==
  \A f \in FieldSet \ {"TEY"} : f \in DOMAIN body /\ body[f].t \in {"num", "numstr"}

Sample_defaultTEY(body) ==
  [f \in FieldSet |-> IF f \in DOMAIN body THEN body[f].v ELSE 0]

Receive_defaultTEY(r) ==
  /\ startup = "serving"
  /\ req[r].pc = "none"
  /\ \A q \in Requests : q < r => req[q].pc # "none"
  /\ \E b \in routes, body \in Bodies :
       Dispatch(r, b, body, SampleValid_defaultTEY(body), Sample_defaultTEY(body))
  /\ UNCHANGED <<store, startup, features, model, routes, loads>>

\* A request arrives on a registered route: FastAPI parses the body and
\* validates it against Sample.  Requests are numbered in order of arrival.
Receive(r) ==
  /\ startup = "serving"
  /\ req[r].pc = "none"
  /\ \A q \in Requests : q < r => req[q].pc # "none"
  /\ \E b \in routes, body \in Bodies :
       Dispatch(r, b, body, SampleValid(body), Sample(body))
  /\ UNCHANGED <<store, startup, features, model, routes, loads>>

\* The handler sorts the global list it reads in place before selecting.
Project_sortsInPlace(r, fb) ==
  /\ req[r].pc = "L1"
  /\ LET got == GetItem(DataFrame(req[r].payload), features[fb])
         rd  == Append(req[r].readFeatures, fb)
     IN /\ req' = [req EXCEPT ![r] =
                     IF got.ok
                     THEN [@ EXCEPT !.pc = "L2", !.X = got.X, !.readFeatures = rd]
                     ELSE [@ EXCEPT !.pc = "done", !.status = 500,
                                    !.readFeatures = rd]]
        /\ features' = [features EXCEPT ![fb].names =
                          IF got.ok
                          THEN SortSeq(@, LAMBDA a, b : FieldIndex(a) < FieldIndex(b))
                          ELSE @]
  /\ UNCHANGED <<store, startup, model, routes, loads>>

\* First statement of a handler, reading the global features_<fb>:
\*   X = pd.DataFrame([payload.dict()])[features_<fb>]
\* A KeyError leaves the handler; FastAPI answers 500.
Project(r, fb) ==
  /\ req[r].pc = "L1"
  /\ LET got == GetItem(DataFrame(req[r].payload), features[fb])
         rd  == Append(req[r].readFeatures, fb)
     IN req' = [req EXCEPT ![r] =
                  IF got.ok
                  THEN [@ EXCEPT !.pc = "L2", !.X = got.X, !.readFeatures = rd]
                  ELSE [@ EXCEPT !.pc = "done", !.status = 500,
                                 !.readFeatures = rd]]
  /\ UNCHANGED <<store, startup, features, model, routes, loads>>

\* A model that keeps state across calls: its output drifts with the number
\* of calls made before.
Invoke_stateful(r, mb) ==
  /\ req[r].pc = "L2"
  /\ LET out == Predict(model[mb], req[r].X)
         inv == Append(req[r].invoked, mb)
         n   == Cardinality({q \in Requests : req[q].invoked # <<>>})
     IN req' = [req EXCEPT ![r] =
                  IF out.ok
                  THEN [@ EXCEPT !.pc = "done", !.status = 200,
                                 !.NOX_pred = out.y + n, !.invoked = inv]
                  ELSE [@ EXCEPT !.pc = "done", !.status = 500,
                                 !.invoked = inv]]
  /\ UNCHANGED <<store, startup, features, model, routes, loads>>

\* Second statement of a handler, calling the global model_<mb>:
\*   return {"NOX_pred": float(model_<mb>.predict(X)[0])}
\* An exception of predict leaves the handler; FastAPI answers 500.
Invoke(r, mb) ==
  /\ req[r].pc = "L2"
  /\ LET out == Predict(model[mb], req[r].X)
         inv == Append(req[r].invoked, mb)
     IN req' = [req EXCEPT ![r] =
                  IF out.ok
                  THEN [@ EXCEPT !.pc = "done", !.status = 200,
                                 !.NOX_pred = out.y, !.invoked = inv]
                  ELSE [@ EXCEPT !.pc = "done", !.status = 500,
                                 !.invoked = inv]]
  /\ UNCHANGED <<store, startup, features, model, routes, loads>>

predict_full(r) ==
  /\ req[r].route = "full"
  /\ \/ Project(r, "full")
     \/ Invoke(r, "full")

\* predict_130 copied from predict_full with the model name left unchanged.
predict_130_modelFull(r) ==
  /\ req[r].route = "130"
  /\ \/ Project(r, "130")
     \/ Invoke(r, "full")

predict_130(r) ==
  /\ req[r].route = "130"
  /\ \/ Project(r, "130")
     \/ Invoke(r, "130")

\* predict_160 that falls back to model_full when model_160 raises.
predict_160_fallback(r) ==
  /\ req[r].route = "160"
  /\ \/ Project(r, "160")
     \/ /\ req[r].pc = "L2"
        /\ LET out == Predict(model["160"], req[r].X)
               alt == Predict(model["full"], req[r].X)
           IN req' = [req EXCEPT ![r] =
                        IF out.ok
                        THEN [@ EXCEPT !.pc = "done", !.status = 200,
                                       !.NOX_pred = out.y, !.invoked = <<"160">>]
                        ELSE IF alt.ok
                        THEN [@ EXCEPT !.pc = "done", !.status = 200,
                                       !.NOX_pred = alt.y,
                                       !.invoked = <<"160", "full">>]
                        ELSE [@ EXCEPT !.pc = "done", !.status = 500,
                                       !.invoked = <<"160", "full">>]]
        /\ UNCHANGED <<store, startup, features, model, routes, loads>>

predict_160(r) ==
  /\ req[r].route = "160"
  /\ \/ Project(r, "160")
     \/ Invoke(r, "160")

Next ==
  \/ Load_features_full
  \/ Load_features_130
  \/ Load_features_160
  \/ Load_model_full
  \/ Load_model_130
  \/ Load_model_160
  \/ CreateApp
  \/ Register_predict_full
  \/ Register_predict_130
  \/ Register_predict_160
  \/ \E r \in Requests : Receive(r)
  \/ \E r \in Requests : predict_full(r)
  \/ \E r \in Requests : predict_130(r)
  \/ \E r \in Requests : predict_160(r)

Spec == Init /\ [][Next]_vars

\* ------------------------------------------------------------------- claims
\* The requests whose handler has built X and handed it to the model (or is
\* about to: X is a local that nothing changes between the two statements).
Projected(r) == req[r].pc = "L2" \/ req[r].invoked # <<>>

\* The loaded feature value of the band a request arrived on.
OrderOf(r) == features[req[r].route]

\* C1: whenever a handler hands a feature vector to its model and the band's
\* loaded feature value is a list, the vector has the length of that list and
\* its i-th entry is the column named by the list's i-th name, holding the
\* reading's value of that field; so nothing is re-sorted and no other field
\* of the reading appears.
C1_VectorFollowsFeatureOrder ==
  \A r \in Requests :
    (Projected(r) /\ OrderOf(r).kind = "list") =>
      /\ Len(req[r].X) = Len(OrderOf(r).names)
      /\ \A i \in 1..Len(OrderOf(r).names) :
           req[r].X[i] = <<OrderOf(r).names[i], req[r].payload[OrderOf(r).names[i]]>>

\* A mid-band request on the first reading was answered from the vector
\* TIT, CDP, AT, TEY (neither the Sample order nor sorted by name).
C1_Witness ==
  \E r \in Requests :
    /\ req[r].route = "130"
    /\ req[r].status = 200
    /\ features["130"] = FeatList(<<"TIT", "CDP", "AT", "TEY">>)
    /\ req[r].X = << <<"TIT", 1>>, <<"CDP", 3>>, <<"AT", 6>>, <<"TEY", 9>> >>

\* C2: in every reachable state, under every interleaving, a request has read
\* no feature global and invoked no model global other than its own band's,
\* and a 200 response carries its own band's model output on the vector
\* selected by its own band's feature value.
C2_BandIsolation ==
  \A r \in Requests :
    /\ \A i \in 1..Len(req[r].readFeatures) : req[r].readFeatures[i] = req[r].route
    /\ \A i \in 1..Len(req[r].invoked) : req[r].invoked[i] = req[r].route
    /\ req[r].status = 200 =>
         /\ req[r].X = GetItem(DataFrame(req[r].payload), OrderOf(r)).X
         /\ req[r].NOX_pred = Predict(model[req[r].route], req[r].X).y

\* Two requests on different bands overlap: one is between its two
\* statements while the other, which arrived later, has been answered.
C2_Witness ==
  \E r, q \in Requests :
    /\ r < q
    /\ req[r].route = "130" /\ req[r].pc = "L2"
    /\ req[q].route = "full" /\ req[q].status = 200

\* C3: a request whose body lacked one of the nine Sample fields is answered
\* 422 on whatever route it arrived, and has read no feature list, built no
\* vector and invoked no model.
C3_MissingFieldRejected ==
  \A r \in Requests :
    req[r].lacked =>
      /\ req[r].pc = "done"
      /\ req[r].status = 422
      /\ req[r].readFeatures = <<>>
      /\ req[r].invoked = <<>>
      /\ req[r].X = <<>>

\* Requests with a field missing were rejected on two different routes.
C3_Witness ==
  \E r, q \in Requests :
    /\ req[r].lacked /\ req[r].route = "full" /\ req[r].status = 422
    /\ req[q].lacked /\ req[q].route = "160" /\ req[q].status = 422

\* C4: no load statement runs more than once, and whenever a route is
\* registered or a request has arrived, each of the six load statements has
\* run exactly once and all six globals are bound; a request exists only
\* once the import has completed.
C4_LoadedOnceBeforeServing ==
  /\ \A f \in Files : loads[f] <= 1
  /\ (routes # {} \/ \E r \in Requests : req[r].pc # "none") =>
       /\ \A f \in Files : loads[f] = 1
       /\ \A b \in Bands : features[b] # Unset /\ model[b] # NotLoaded
  /\ (\E r \in Requests : req[r].pc # "none") => startup = "serving"

\* A request is inside its handler after a complete import.
C4_Witness ==
  /\ startup = "serving"
  /\ \E r \in Requests : req[r].pc = "L2"
  /\ \A f \in Files : loads[f] = 1

\* The artifacts whose load statement raises.
Unloadable ==
  {MetaFile(b) : b \in {c \in Bands : store.meta[c].kind \in {"absent", "nokey"}}}
  \cup {ModelFile(b) : b \in {c \in Bands : store.blob[c].kind = "absent"}}

\* C5: when one of the six artifacts cannot be loaded, the import never
\* completes: no app is created, no route is registered and no request is
\* received; and the import runs past the loads only with all six bound.
C5_NoPartialAvailability ==
  /\ Unloadable # {} =>
       /\ startup \in {"L8", "L9", "L10", "L13", "L14", "L15", "aborted"}
       /\ routes = {}
       /\ \A r \in Requests : req[r].pc = "none"
  /\ startup \in {"L21", "L40", "L45", "L50", "serving"} =>
       \A b \in Bands : features[b] # Unset /\ model[b] # NotLoaded

\* The import aborted on the mid-band model after five artifacts had loaded.
C5_Witness ==
  /\ startup = "aborted"
  /\ store.blob["130"] = NoModel
  /\ model["full"] # NotLoaded
  /\ model["130"] = NotLoaded
  /\ routes = {}

\* A feature value as the specification requires it.
WellFormedOrder(v) ==
  /\ v.kind = "list"
  /\ v.names # <<>>
  /\ \A i \in 1..Len(v.names) : v.names[i] \in FieldSet

\* C6: once requests can be served every band's loaded feature value is a
\* non-empty list of Sample field names, and a metadata document whose
\* feature entry is anything else stops the import.
C6_FeatureOrdersWellFormed ==
  /\ startup = "serving" => \A b \in Bands : WellFormedOrder(features[b])
  /\ (\E b \in Bands : store.meta[b].kind \in {"list", "str"}
                       /\ ~WellFormedOrder(store.meta[b]))
       => startup # "serving"

\* C7: a request whose handler has read a feature value holding a name that
\* is no Sample field is answered 500; no vector was built and no model was
\* invoked for it.
C7_FeatureMismatchFails ==
  \A r \in Requests :
    (req[r].readFeatures # <<>>
     /\ \E i \in 1..Len(OrderOf(r).names) : OrderOf(r).names[i] \notin FieldSet) =>
      /\ req[r].pc = "done"
      /\ req[r].status = 500
      /\ req[r].X = <<>>
      /\ req[r].invoked = <<>>

\* The high-band list names NOX and a valid reading was refused on that band.
C7_Witness ==
  \E r \in Requests :
    /\ req[r].route = "160"
    /\ features["160"] = FeatList(<<"TIT", "NOX">>)
    /\ req[r].payload = Sample(Body2)
    /\ req[r].status = 500

\* C8: a request invokes a model at most once, and only its own band's; a
\* request whose invocation raised is finished with status 500 and carries
\* no prediction.
C8_NoRetryNoFallback ==
  \A r \in Requests :
    /\ Len(req[r].invoked) <= 1
    /\ \A i \in 1..Len(req[r].invoked) : req[r].invoked[i] = req[r].route
    /\ (req[r].invoked # <<>> /\ ~Predict(model[req[r].route], req[r].X).ok) =>
         /\ req[r].pc = "done"
         /\ req[r].status = 500
         /\ req[r].NOX_pred = 0

\* The high-band model raised on a vector of the wrong shape.
C8_Witness ==
  \E r \in Requests :
    /\ req[r].route = "160"
    /\ req[r].invoked = <<"160">>
    /\ req[r].status = 500

\* C9: from the moment the import has completed, no step changes a feature
\* global, a model global or an artifact.
C9_RegistriesImmutable ==
  [][startup = "serving" =>
       /\ features' = features
       /\ model' = model
       /\ store' = store]_vars

\* Requests have succeeded and failed while the registries hold what the
\* store held at load time.
C9_Witness ==
  /\ startup = "serving"
  /\ \E r, q \in Requests : req[r].status = 200 /\ req[q].status = 500
  /\ \A b \in Bands : features[b] = store.meta[b] /\ model[b] = store.blob[b]

====
